---- MODULE Spec2Model ----
(***************************************************************************)
(* Model of nbs/pricing.py: price_american_call_pde (an American call      *)
(* priced by a QuantLib finite-difference engine) and                       *)
(* implied_volatility_american_call_pde (scipy.optimize.newton on the       *)
(* pricer, RuntimeError turned into None).                                  *)
(*                                                                          *)
(* Numbers are fixed point.  A time is a whole number of ticks, one tick    *)
(* being 1/(365*TicksPerDay) year, so that int(t * 365) is a truncating     *)
(* division.  A volatility is a whole number of units of 1e-4, the          *)
(* perturbation newton uses for its second starting point.  A price is a    *)
(* whole number of price ticks.  The secant update is the exact rational    *)
(* value rounded to the nearest volatility unit.                            *)
(*                                                                          *)
(* The two libraries are not part of the repository.  They are modelled at  *)
(* the call sites by their documented behaviour; what differs between       *)
(* library builds (the engine's answer at a volatility <= 0) is the         *)
(* variable `engine`, chosen once per behaviour.  rate and div_yield only    *)
(* parameterise the engine's value and are left out of the records.         *)
(***************************************************************************)
EXTENDS Integers, Sequences, FiniteSets, TLC

VARIABLES evaluationDate, engine, lastCall, pc, args, p0, q0, p1, q1, itr,
          funcalls, result, evals

vars == <<evaluationDate, engine, lastCall, pc, args, p0, q0, p1, q1, itr,
          funcalls, result, evals>>

solverVars == <<pc, args, p0, q0, p1, q1, itr, funcalls, result, evals>>

----------------------------------------------------------------------------
(* Program constants *)

\* ql.Date(1, 1, 2024) as a QuantLib serial number
CalculationDate == 45292
\* ql.Settings.instance().evaluationDate before anyone sets it: the null date
NullDate == 0
\* int(t * 365): ticks per day of the model's time unit
TicksPerDay == 2
\* ql.FDAmericanEngine(process, timeSteps=100, gridPoints=100, ...)
TimeSteps == 100
GridPoints == 100
\* scipy.optimize.newton defaults: maxiter=50, tol=1.48e-8 (0 volatility units)
MaxIter == 50
Tol == 0
\* eps = 1e-4 in newton's choice of the second starting point: 1/EpsInv
EpsInv == 10000

----------------------------------------------------------------------------
(* Arithmetic helpers *)

Abs(x) == IF x < 0 THEN -x ELSE x
Min(a, b) == IF a <= b THEN a ELSE b
Max(a, b) == IF a >= b THEN a ELSE b

\* Python int(): truncation toward zero of n / d, d > 0
Trunc(n, d) == IF n >= 0 THEN n \div d ELSE -((-n) \div d)

\* n / d rounded to the nearest integer, d # 0
RoundDiv(n, d) ==
    LET nn == IF d < 0 THEN -n ELSE n
        dd == Abs(d)
    IN  (2 * nn + dd) \div (2 * dd)

----------------------------------------------------------------------------
(* price_american_call_pde *)

\* int(t * 365) for a time of t ticks
Days(t) == Trunc(t, TicksPerDay)

\* calculation_date + ql.Period(int(t * 365), ql.Days)
DateOf(t) == CalculationDate + Days(t)

\* the loop over zip(dividend_dates_ql, dividends): one FixedDividend per
\* position present in BOTH sequences, in the caller's order
BuildSchedule(dividends, dividend_times) ==
    [i \in 1..Min(Len(dividends), Len(dividend_times)) |->
        [amount |-> dividends[i], date |-> DateOf(dividend_times[i])]]

\* cash the engine takes off the time value: the dividends of the schedule
\* that fall after the evaluation date and not after the last exercise date
RECURSIVE DivTotal(_, _, _)
DivTotal(schedule, lastDate, i) ==
    IF i > Len(schedule) THEN 0
    ELSE (IF schedule[i].date > CalculationDate /\ schedule[i].date <= lastDate
          THEN schedule[i].amount ELSE 0)
         + DivTotal(schedule, lastDate, i + 1)

\* the engine's value for a live option at volatility v >= 0: never below
\* immediate exercise, never above spot, concave and non-decreasing in v
\* (4 price ticks per volatility unit on the steep part, 1 on the shallow)
Curve(spot, strike, v, div) ==
    LET intr == Max(spot - strike, 0)
        tv   == Max(Min(4 * v, 30 + v) - div, 0)
    IN  Min(intr + tv, Max(spot, intr))

Value(x, sch) == [kind |-> "value", val |-> x, schedule |-> sch]
Raised(sch)   == [kind |-> "RuntimeError", val |-> 0, schedule |-> sch]

\* option.NPV(): an option whose last exercise date is not after the
\* evaluation date is expired and worth 0; the engine rejects spot <= 0; at
\* a volatility <= 0 a build either rejects or works on the variance
NPV(spot, strike, lastDate, volatility, sch, eng) ==
    IF lastDate <= CalculationDate THEN Value(0, sch)
    ELSE IF spot <= 0 THEN Raised(sch)
    ELSE IF volatility <= 0 /\ eng = "rejects" THEN Raised(sch)
    ELSE Value(Curve(spot, strike, Abs(volatility),
                     DivTotal(sch, lastDate, 1)), sch)

\* the whole function: ql.AmericanExercise(earliest, latest) raises when
\* earliest > latest; every QuantLib error is a Python RuntimeError
price_american_call_pde(spot, strike, maturity, volatility, dividends, dividend_times, eng) ==
    IF DateOf(maturity) < CalculationDate THEN Raised(<< >>)
    ELSE NPV(spot, strike, DateOf(maturity), volatility,
             BuildSchedule(dividends, dividend_times), eng)

\* the record kept of the most recent pricer invocation
CallRecord(spot, strike, maturity, volatility, dividends, dividend_times, eng) ==
    [spot |-> spot, strike |-> strike, maturity |-> maturity,
     volatility |-> volatility, dividends |-> dividends,
     dividend_times |-> dividend_times,
     outcome |-> price_american_call_pde(spot, strike, maturity, volatility,
                                         dividends, dividend_times, eng)]

NoCall ==
    [spot |-> 0, strike |-> 0, maturity |-> 0, volatility |-> 0,
     dividends |-> << >>, dividend_times |-> << >>,
     outcome |-> [kind |-> "none", val |-> 0, schedule |-> << >>]]

----------------------------------------------------------------------------
(* Inputs *)

Spots == {0, 100, 120}
Strikes == {100}
\* -2 ticks = -1 day, 1 tick = half a day, 730 ticks = one year
Maturities == {-2, 0, 1, 730}
Vols == {-3, 0, 5, 30}
\* largest of the small positive guesses
MaxGuess == 5
Guesses == {-3, 0, 30} \cup 3..MaxGuess
Targets == {8, 12, 20, 130}
\* (amounts, times): none; the example's two; an amount without a time's
\* partner; two times on one day, out of order; a time after maturity; a
\* negative amount
DividendInputs ==
    { << << >>, << >> >>,
      << <<2, 1>>, <<183, 547>> >>,
      << <<2>>, <<183, 547>> >>,
      << <<2, 1>>, <<183, 182>> >>,
      << <<2, 1>>, <<800, 183>> >>,
      << <<-1>>, <<183>> >> }

----------------------------------------------------------------------------
Init ==
    /\ evaluationDate = NullDate
    /\ engine \in {"rejects", "variance"}
    /\ lastCall = NoCall
    /\ pc = "idle"
    /\ args = [target |-> 0, spot |-> 0, strike |-> 0, maturity |-> 0,
               dividends |-> << >>, dividend_times |-> << >>, guess |-> 0,
               roundtrip |-> FALSE]
    /\ p0 = 0 /\ q0 = 0 /\ p1 = 0 /\ q1 = 0
    /\ itr = 0
    /\ funcalls = 0
    /\ result = [kind |-> "none", val |-> 0, why |-> "none"]
    /\ evals = {}

\* a direct call of the pricer by the end user
CallPricer ==
    /\ pc = "idle"
    /\ \E spot \in Spots, strike \in Strikes, maturity \in Maturities,
          volatility \in Vols, d \in DividendInputs :
          lastCall' = CallRecord(spot, strike, maturity, volatility,
                                 d[1], d[2], engine)
    /\ evaluationDate' = CalculationDate
    /\ UNCHANGED <<engine, solverVars>>

----------------------------------------------------------------------------
(* implied_volatility_american_call_pde *)

\* objective_function(vol): the pricer on the solver's arguments
Objective(a, vol, eng) ==
    CallRecord(a.spot, a.strike, a.maturity, vol, a.dividends,
               a.dividend_times, eng)

\* newton's second starting point: p1 = x0 * (1 + eps), then + eps when
\* p1 >= 0 and - eps otherwise
SecondPoint(x0) ==
    LET p == x0 + RoundDiv(x0, EpsInv)
    IN  IF p >= 0 THEN p + 1 ELSE p - 1

\* the secant update, by newton's two algebraically equal expressions
SecantUpdate(a0, b0, a1, b1) ==
    IF Abs(b1) > Abs(b0)
    THEN RoundDiv(b1 * a0 - b0 * a1, b1 - b0)
    ELSE RoundDiv(b0 * a1 - b1 * a0, b0 - b1)

\* np.isclose(p, p1, rtol=0, atol=tol)
IsClose(p, q) == Abs(p - q) <= Tol

\* variant: equal objective values always give the midpoint of the points
FlatOutcomeMidpoint(a0, a1) ==
    [kind |-> "value", val |-> (a1 + a0) \div 2, why |-> "flat"]

\* newton when the two objective values are equal: with distinct points it
\* raises RuntimeError (disp=True), else it returns their midpoint
FlatOutcome(a0, a1) ==
    IF a1 # a0 THEN [kind |-> "RuntimeError", val |-> 0, why |-> "flat"]
    ELSE [kind |-> "value", val |-> (a1 + a0) \div 2, why |-> "flat"]

\* variant: the last iterate is returned when the budget is used up
ExhaustedOutcomeLastIterate(p) ==
    [kind |-> "value", val |-> p, why |-> "maxiter"]

\* newton after range(maxiter) is used up: raises RuntimeError (disp=True)
ExhaustedOutcome(p) == [kind |-> "RuntimeError", val |-> 0, why |-> "maxiter"]

\* variant: a failed search is reported as the number 0
HandleNewtonSentinel(o) ==
    IF o.kind = "RuntimeError" THEN [kind |-> "value", val |-> 0, why |-> o.why]
    ELSE o

\* try: return newton(...)  except RuntimeError: return None
HandleNewton(o) ==
    IF o.kind = "RuntimeError" THEN [kind |-> "None", val |-> 0, why |-> o.why]
    ELSE o

NoResult == [kind |-> "none", val |-> 0, why |-> "none"]

\* entry into newton: p0 = guess, p1, and q0 = func(p0)
StartSearch(a) ==
    LET r == Objective(a, a.guess, engine) IN
    /\ args' = a
    /\ p0' = a.guess
    /\ p1' = SecondPoint(a.guess)
    /\ lastCall' = r
    /\ evaluationDate' = CalculationDate
    /\ evals' = {a.guess}
    /\ funcalls' = 1
    /\ itr' = 0
    /\ q1' = 0
    /\ IF r.outcome.kind = "RuntimeError"
       THEN /\ result' = HandleNewton([kind |-> "RuntimeError", val |-> 0,
                                       why |-> "pricer"])
            /\ q0' = 0
            /\ pc' = "done"
       ELSE /\ result' = NoResult
            /\ q0' = r.outcome.val - a.target
            /\ pc' = "q1"
    /\ UNCHANGED engine

\* the solver called on a target price of the caller's choosing
CallSolver ==
    /\ pc = "idle"
    /\ \E target \in Targets, spot \in Spots, strike \in Strikes,
          maturity \in Maturities, d \in DividendInputs, guess \in Guesses :
          StartSearch([target |-> target, spot |-> spot, strike |-> strike,
                       maturity |-> maturity, dividends |-> d[1],
                       dividend_times |-> d[2], guess |-> guess,
                       roundtrip |-> FALSE])

\* the solver called on the price the pricer has just returned, with the
\* same inputs and the pricing volatility as the guess
RoundTrip ==
    /\ pc = "idle"
    /\ lastCall.outcome.kind = "value"
    /\ StartSearch([target |-> lastCall.outcome.val, spot |-> lastCall.spot,
                    strike |-> lastCall.strike,
                    maturity |-> lastCall.maturity,
                    dividends |-> lastCall.dividends,
                    dividend_times |-> lastCall.dividend_times,
                    guess |-> lastCall.volatility, roundtrip |-> TRUE])

\* q1 = func(p1), and the swap that makes p1 the point of larger |q|
EvalQ1 ==
    /\ pc = "q1"
    /\ LET r == Objective(args, p1, engine) IN
       /\ lastCall' = r
       /\ evaluationDate' = CalculationDate
       /\ evals' = evals \cup {p1}
       /\ funcalls' = funcalls + 1
       /\ IF r.outcome.kind = "RuntimeError"
          THEN /\ result' = HandleNewton([kind |-> "RuntimeError", val |-> 0,
                                          why |-> "pricer"])
               /\ pc' = "done"
               /\ UNCHANGED <<p0, q0, p1, q1>>
          ELSE LET q == r.outcome.val - args.target IN
               /\ IF Abs(q) < Abs(q0)
                  THEN /\ p0' = p1 /\ p1' = p0 /\ q0' = q /\ q1' = q0
                  ELSE /\ q1' = q /\ UNCHANGED <<p0, p1, q0>>
               /\ pc' = "loop"
               /\ UNCHANGED result
    /\ UNCHANGED <<engine, args, itr>>

\* one pass of the body of `for itr in range(maxiter)`
SecantStep ==
    /\ pc = "loop"
    /\ itr < MaxIter
    /\ IF q1 = q0
       THEN /\ result' = HandleNewton(FlatOutcome(p0, p1))
            /\ pc' = "done"
            /\ UNCHANGED <<p0, q0, p1, q1, itr, funcalls, evals, lastCall,
                           evaluationDate>>
       ELSE LET p == SecantUpdate(p0, q0, p1, q1) IN
            IF IsClose(p, p1)
            THEN /\ result' = HandleNewton([kind |-> "value", val |-> p,
                                            why |-> "converged"])
                 /\ pc' = "done"
                 /\ UNCHANGED <<p0, q0, p1, q1, itr, funcalls, evals,
                                lastCall, evaluationDate>>
            ELSE LET r == Objective(args, p, engine) IN
                 /\ p0' = p1 /\ q0' = q1 /\ p1' = p
                 /\ lastCall' = r
                 /\ evaluationDate' = CalculationDate
                 /\ evals' = evals \cup {p}
                 /\ funcalls' = funcalls + 1
                 /\ IF r.outcome.kind = "RuntimeError"
                    THEN /\ result' = HandleNewton([kind |-> "RuntimeError",
                                          val |-> 0, why |-> "pricer"])
                         /\ pc' = "done"
                         /\ UNCHANGED <<q1, itr>>
                    ELSE /\ q1' = r.outcome.val - args.target
                         /\ itr' = itr + 1
                         /\ UNCHANGED <<pc, result>>
    /\ UNCHANGED <<engine, args>>

\* the loop ran maxiter times without returning
Exhausted ==
    /\ pc = "loop"
    /\ itr = MaxIter
    /\ result' = HandleNewton(ExhaustedOutcome(p1))
    /\ pc' = "done"
    /\ UNCHANGED <<evaluationDate, engine, lastCall, args, p0, q0, p1, q1,
                   itr, funcalls, evals>>

\* the solver's frame, and with it the record of the pricer calls it made,
\* is gone once its caller has the result
Return ==
    /\ pc = "done"
    /\ pc' = "idle"
    /\ args' = [target |-> 0, spot |-> 0, strike |-> 0, maturity |-> 0,
                dividends |-> << >>, dividend_times |-> << >>, guess |-> 0,
                roundtrip |-> FALSE]
    /\ p0' = 0 /\ q0' = 0 /\ p1' = 0 /\ q1' = 0
    /\ itr' = 0
    /\ funcalls' = 0
    /\ result' = NoResult
    /\ evals' = {}
    /\ lastCall' = NoCall
    /\ UNCHANGED <<evaluationDate, engine>>

Next ==
    \/ CallPricer
    \/ CallSolver
    \/ RoundTrip
    \/ EvalQ1
    \/ SecantStep
    \/ Exhausted
    \/ Return

Spec == Init /\ [][Next]_vars

----------------------------------------------------------------------------
(* Properties *)

\* the pricer's documented input contract, on the record of a call
ValidCall(c) ==
    /\ c.spot > 0
    /\ c.volatility > 0
    /\ c.maturity > 0
    /\ TimeSteps >= 1
    /\ GridPoints >= 3

\* the DividendSchedule invariant on the caller's sequences, in ticks
ValidDividends(dividends, dividend_times, maturity) ==
    /\ Len(dividends) = Len(dividend_times)
    /\ \A i \in 1..Len(dividend_times) :
          dividend_times[i] > 0 /\ dividend_times[i] < maturity
    /\ \A i \in 1..Len(dividends) : dividends[i] >= 0
    /\ \A i, j \in 1..Len(dividend_times) :
          i < j => dividend_times[i] < dividend_times[j]

\* the DividendSchedule invariant on the schedule the pricer built
ScheduleOK(c) ==
    LET sch == c.outcome.schedule IN
    /\ Len(sch) = Len(c.dividends)
    /\ Len(sch) = Len(c.dividend_times)
    /\ \A i \in 1..Len(sch) :
          /\ sch[i].date > CalculationDate
          /\ sch[i].date < DateOf(c.maturity)
          /\ sch[i].amount >= 0
    /\ \A i, j \in 1..Len(sch) : i < j => sch[i].date < sch[j].date

ValidArgs ==
    /\ args.spot > 0
    /\ args.maturity > 0
    /\ ValidDividends(args.dividends, args.dividend_times, args.maturity)

\* C1: a number returned by the solver is the iterate of a search that ended
\* on its step-size criterion (the last step is within the tolerance and the
\* two objective values differ); any other end of the search is the distinct
\* None result.
C1_NumericResultIsConverged ==
    pc = "done" =>
        /\ result.kind \in {"value", "None"}
        /\ result.kind = "value" =>
              /\ q1 # q0
              /\ Abs(result.val - p1) <= Tol

C1_Witness ==
    /\ pc = "done"
    /\ result.kind = "value"
    /\ itr >= 1
    /\ ValidArgs
    /\ args.guess > 0

\* C2: a search for a target price above spot ends with None, whatever the
\* initial guess.
C2_UnreachableGivesNone ==
    (pc = "done" /\ args.target > args.spot) => result.kind = "None"

C2_Witness ==
    /\ pc = "done"
    /\ args.target > args.spot
    /\ ValidArgs
    /\ args.maturity >= TicksPerDay
    /\ args.guess > 0
    /\ itr >= 1
    /\ result.kind = "None"

\* C3: the pricer returns a number only when spot, volatility and maturity
\* are positive and the grid sizes are valid; otherwise it fails.
C3_InvalidInputRejected ==
    lastCall.outcome.kind = "value" => ValidCall(lastCall)

\* C4: when the pricer raises for malformed solver arguments, the solver does
\* not report None: the error reaches the solver's caller.
C4_PricerErrorPropagates ==
    (pc = "done" /\ result.why = "pricer" /\ (args.spot <= 0 \/ args.maturity <= 0))
        => result.kind # "None"

C6_RoundTrip ==
    (pc = "done" /\ args.roundtrip /\ ValidArgs /\ args.guess > 0)
        => (result.kind = "value" /\ Abs(result.val - args.guess) <= 1)

\* C7: the price returned for valid inputs is at least the immediate
\* exercise value max(spot - strike, 0).
C7_ExerciseFloor ==
    (/\ lastCall.outcome.kind = "value"
     /\ ValidCall(lastCall)
     /\ ValidDividends(lastCall.dividends, lastCall.dividend_times,
                       lastCall.maturity))
        => lastCall.outcome.val >= Max(lastCall.spot - lastCall.strike, 0)

\* C8: no step of the program changes the process-wide evaluation date.
C8_NoGlobalWrite == [][evaluationDate' = evaluationDate]_vars

\* C9: in a search started from a positive guess the pricer is only ever
\* evaluated at positive volatilities, and only a positive number is returned.
C9_IteratesPositive ==
    (pc # "idle" /\ args.guess > 0) =>
        /\ \A v \in evals : v > 0
        /\ result.kind = "value" => result.val > 0

\* C10: whenever the pricer returns a price, the schedule it built has one
\* entry per supplied amount and per supplied time, dates strictly between
\* the calculation date and the last exercise date, strictly ascending, and
\* amounts >= 0.
C10_ScheduleInvariant ==
    (lastCall.outcome.kind = "value" /\ ValidCall(lastCall))
        => ScheduleOK(lastCall)

====
